---- MODULE Spec2Model ----
(***************************************************************************)
(* A model of the reroi / Fluid reactive engine: the SparseArray and       *)
(* PriorityPool containers, the Value / Derivation / Listener nodes, the   *)
(* notifyDeps work-stack traversal and the transaction engine              *)
(* (transaction.write, transaction.compose, run, silentRun).               *)
(*                                                                         *)
(* JavaScript objects with identity (Set, PriorityPool, nodes,             *)
(* transactions) live in sequences that act as the heap: an object is its  *)
(* position in the sequence and 0 stands for undefined.                    *)
(***************************************************************************)
EXTENDS Integers, Sequences, FiniteSets, TLC

\* ------------------------------------------------------------------ bounds
NumVals == 3
MaxSubs == 2
MaxWrites == 2
MaxCompose == 1
MaxChildren == 3
MaxPrio == 1
Lim == 1
MaxExec == 2
MaxMerge == 4
MaxNodes == 3
MaxPlain == 1
MaxOps == 3
MaxNested == 4

\* ------------------------------------------------------------- constants
nullCache == -1
Undef == 0

VARIABLES value, subs, sets, pools, trs, log, calls, ret, pre, nexec

vars == <<value, subs, sets, pools, trs, log, calls, ret, pre, nexec>>

\* ------------------------------------------------------------ SparseArray
\* new SparseArray(): nodeMap = {}, head = tail = undefined
SAEmpty == [node |-> <<>>, nodeMap |-> <<>>, head |-> 0, tail |-> 0]

SAGet(sa, index) ==
  IF index \in DOMAIN sa.nodeMap THEN sa.node[sa.nodeMap[index]].value ELSE Undef

RECURSIVE WalkNext(_, _, _)
WalkNext(sa, n, fuel) ==
  IF n = 0 \/ fuel = 0 THEN <<>>
  ELSE <<[value |-> sa.node[n].value, index |-> sa.node[n].index]>>
         \o WalkNext(sa, sa.node[n].next, fuel - 1)

RECURSIVE WalkPrevious(_, _, _)
WalkPrevious(sa, n, fuel) ==
  IF n = 0 \/ fuel = 0 THEN <<>>
  ELSE <<[value |-> sa.node[n].value, index |-> sa.node[n].index]>>
         \o WalkPrevious(sa, sa.node[n].previous, fuel - 1)

\* forEach: from this.tail along next; forEachBackward: from this.head along previous
SAForEach(sa) == WalkNext(sa, sa.tail, Len(sa.node) + 1)
SAForEachBackward(sa) == WalkPrevious(sa, sa.head, Len(sa.node) + 1)

MapPut(m, k, v) == [i \in DOMAIN m \cup {k} |-> IF i = k THEN v ELSE m[i]]
MapDel(m, k) == [i \in DOMAIN m \ {k} |-> m[i]]

\* delete(index), statement by statement; nd is the node found in nodeMap
deleteFromPrevious(sa, nd) ==
  IF nd.previous # 0 THEN [sa EXCEPT !.node[nd.previous].next = nd.next]
  ELSE [sa EXCEPT !.tail = nd.next]

\* else-branch: this.head = node, the node that is being deleted
deleteFromNext(sa, n, nd) ==
  IF nd.next # 0 THEN [sa EXCEPT !.node[nd.next].previous = nd.previous]
  ELSE [sa EXCEPT !.head = n]

deleteFromMap(sa, index) == [sa EXCEPT !.nodeMap = MapDel(@, index)]

SADelete(sa, index) ==
  IF index \notin DOMAIN sa.nodeMap THEN sa
  ELSE deleteFromMap(deleteFromNext(deleteFromPrevious(sa, sa.node[sa.nodeMap[index]]),
                                    sa.nodeMap[index], sa.node[sa.nodeMap[index]]),
                     index)

\* the while loop of push: <<array after a possible delete, pushAfter>>
RECURSIVE PushScan(_, _, _)
PushScan(sa, pushAfter, index) ==
  IF pushAfter = 0 \/ sa.node[pushAfter].index < index THEN <<sa, pushAfter>>
  ELSE IF sa.node[pushAfter].index = index
    THEN <<SADelete(sa, sa.node[pushAfter].index), sa.node[pushAfter].previous>>
    ELSE PushScan(sa, sa.node[pushAfter].previous, index)

\* push on an empty array (this.head === undefined)
pushFirst(sa, v, index) ==
  [node |-> Append(sa.node, [value |-> v, index |-> index, next |-> 0, previous |-> 0]),
   nodeMap |-> MapPut(sa.nodeMap, index, Len(sa.node) + 1),
   head |-> Len(sa.node) + 1, tail |-> Len(sa.node) + 1]

\* node.next: pushAfter?.next, or this.tail when pushAfter is undefined
pushNext(sa, pushAfter) == IF pushAfter = 0 THEN sa.tail ELSE sa.node[pushAfter].next

\* const node = {value, previous: pushAfter, next, index}; the new node is `new`
pushNode(sa, v, index, pushAfter, next) ==
  [sa EXCEPT !.node = Append(@, [value |-> v, index |-> index,
                                 next |-> next, previous |-> pushAfter])]

\* this.tail = node when pushAfter is undefined, this.head = node when
\* pushAfter.next is undefined
pushEnds(sa, pushAfter, new) ==
  IF pushAfter = 0 THEN [sa EXCEPT !.tail = new]
  ELSE IF sa.node[pushAfter].next = 0 THEN [sa EXCEPT !.head = new]
  ELSE sa

\* if (node.previous) node.previous.next = node
pushLinkPrevious(sa, pushAfter, new) ==
  IF pushAfter # 0 THEN [sa EXCEPT !.node[pushAfter].next = new] ELSE sa

\* if (node.next) node.next.previous = node
pushLinkNext(sa, next, new) ==
  IF next # 0 THEN [sa EXCEPT !.node[next].previous = new] ELSE sa

pushToMap(sa, index, new) == [sa EXCEPT !.nodeMap = MapPut(@, index, new)]

\* push after the while loop; scan = <<array, pushAfter>>
pushAt(sa, pushAfter, next, v, index, new) ==
  pushToMap(pushLinkNext(pushLinkPrevious(pushEnds(pushNode(sa, v, index, pushAfter, next),
                                                   pushAfter, new),
                                          pushAfter, new),
                         next, new),
            index, new)

pushScanned(scan, v, index) ==
  pushAt(scan[1], scan[2], pushNext(scan[1], scan[2]), v, index, Len(scan[1].node) + 1)

\* push(value, index) with an explicit index
SAPush(sa, v, index) ==
  IF sa.head = 0 THEN pushFirst(sa, v, index)
  ELSE pushScanned(PushScan(sa, sa.head, index), v, index)

\* push(value) without an index: the index after that of this.head, 0 on an
\* empty array
SAPushLast(sa, v) == SAPush(sa, v, IF sa.head = 0 THEN 0 ELSE sa.node[sa.head].index + 1)

\* -------------------------------------------------------------- JS Set
\* A Set keeps insertion order: a sequence without repetition.
Range(q) == {q[i] : i \in DOMAIN q}
SetAdd(q, x) == IF x \in Range(q) THEN q ELSE Append(q, x)
SetDelete(q, x) == SelectSeq(q, LAMBDA y : y # x)
SetUnion(p, q) == p \o SelectSeq(q, LAMBDA y : y \notin Range(p))
Reverse(q) == [i \in 1..Len(q) |-> q[Len(q) + 1 - i]]
RECURSIVE Dedup(_)
Dedup(q) == IF q = <<>> THEN <<>> ELSE SetAdd(Dedup(SubSeq(q, 1, Len(q) - 1)), q[Len(q)])

\* ------------------------------------------------------------- the heap
\* h.value : the value of each ReactiveValue (nodes 1..NumVals)
\* h.subs  : derivations and listeners, node NumVals + k is h.subs[k]
\* h.sets  : the Set objects (pools of one priority)
\* h.pools : the PriorityPool objects; pool v is the dependencies of Value v
\* h.trs   : the transaction objects
\* h.log   : the messages delivered by the running operation
\* h.calls : the producer calls made by the running operation
isVal(n) == n \in 1..NumVals
SubOf(h, n) == h.subs[n - NumVals]
isDerive(h, n) == n > NumVals /\ SubOf(h, n).tag = "rder"
Dependencies(h, n) == IF isVal(n) THEN n ELSE SubOf(h, n).dependencies

\* PriorityPool.getOrMake on pool pid: <<heap, Set>>
getOrMake(h, pid, index) ==
  LET got == SAGet(h.pools[pid], index) IN
  IF got # Undef THEN <<h, got>>
  ELSE LET sid == Len(h.sets) + 1 IN
       <<[h EXCEPT !.sets = Append(@, <<>>),
                   !.pools[pid] = SAPush(@, sid, index)], sid>>

\* sources.forEach(source => source.dependencies.getOrMake(priority).add(node))
RECURSIVE Subscribe(_, _, _, _)
Subscribe(h, n, sources, priority) ==
  IF sources = <<>> THEN h
  ELSE LET gm == getOrMake(h, Dependencies(h, sources[1]), priority)
           h1 == [gm[1] EXCEPT !.sets[gm[2]] = SetAdd(@, n)]
       IN Subscribe(h1, n, Tail(sources), priority)

\* sources.forEach(source => source.dependencies.getOrMake(priority).delete(node))
RECURSIVE Unsubscribe(_, _, _, _)
Unsubscribe(h, n, sources, priority) ==
  IF sources = <<>> THEN h
  ELSE LET gm == getOrMake(h, Dependencies(h, sources[1]), priority)
           h1 == [gm[1] EXCEPT !.sets[gm[2]] = SetDelete(@, n)]
       IN Unsubscribe(h1, n, Tail(sources), priority)

\* The effects of the model (the fn handed to listen), called with the values
\* read from the sources:
\*   none  : () => {}
\*   read  : () => { read(arg) }             arg a derivation
\*   write : a => { write(arg, a + 1) }      arg a Value
NoEffect == [kind |-> "none", arg |-> 0]

\* the compute function of every derivation of the model: 1 + the sum of its arguments
RECURSIVE Sum(_)
Sum(q) == IF q = <<>> THEN 0 ELSE q[1] + Sum(Tail(q))
fn(args) == 1 + Sum(args)

\* read, and derived.value() with the applier made by mkApplier: <<heap, value>>
RECURSIVE read(_, _)
RECURSIVE readList(_, _)
readList(h, list) ==
  IF list = <<>> THEN <<h, <<>>>>
  ELSE LET r == read(h, list[1])
           rest == readList(r[1], Tail(list))
       IN <<rest[1], <<r[2]>> \o rest[2]>>
\* derived.value(): applyFn() is called and its result cached; the log records
\* the call of the compute function, computed and reads (of no effect on the
\* program) count the calls and collect the results read since the last Update,
\* origin (of no effect either) keeps the sources the node was made with.
\* First a faulty value(): the result is not cached
derivedValue_uncached(h, n, args) ==
  [h EXCEPT !.subs[n - NumVals].computed = @ + 1,
            !.subs[n - NumVals].reads = @ \cup {fn(args)},
            !.log = Append(@, [to |-> n, from |-> n, type |-> "COMPUTE",
                               seen |-> h.value, args |-> args])]

derivedValue(h, n, args) ==
  [h EXCEPT !.subs[n - NumVals]._cache = fn(args),
            !.subs[n - NumVals].computed = @ + 1,
            !.subs[n - NumVals].reads = @ \cup {fn(args)},
            !.log = Append(@, [to |-> n, from |-> n, type |-> "COMPUTE",
                               seen |-> h.value, args |-> args])]

readDerive(h, n, args) == <<derivedValue(args[1], n, args[2]), fn(args[2])>>

read(h, n) ==
  IF isVal(n) THEN <<h, h.value[n]>>
  ELSE IF SubOf(h, n)._cache # nullCache
    THEN <<[h EXCEPT !.subs[n - NumVals].reads = @ \cup {SubOf(h, n)._cache}],
           SubOf(h, n)._cache>>
  ELSE readDerive(h, n, readList(h, SubOf(h, n).list))

\* peek(derivation, values): <<heap, value>>. First a faulty peek: the result is cached
peek_caches(h, n, values) == <<[h EXCEPT !.subs[n - NumVals]._cache = fn(values)], fn(values)>>

peek(h, n, values) == <<h, fn(values)>>

derive(h, sources, priority) ==
  LET pid == Len(h.pools) + 1
      n == NumVals + Len(h.subs) + 1
      derived == [tag |-> "rder", priority |-> priority, sources |-> sources,
                  list |-> sources, _cache |-> nullCache, dependencies |-> pid,
                  once |-> FALSE, effect |-> NoEffect, computed |-> 0, reads |-> {},
                  origin |-> sources]
      h1 == [h EXCEPT !.pools = Append(@, SAEmpty), !.subs = Append(@, derived)]
  IN Subscribe(h1, n, sources, priority)

\* listen(sources, fn, {priority, once}) with fn one of the effects of the model
listenFn(h, sources, priority, once, effect) ==
  LET n == NumVals + Len(h.subs) + 1
      listener == [tag |-> "listener", priority |-> priority, sources |-> sources,
                   list |-> sources, _cache |-> nullCache, dependencies |-> 0,
                   once |-> once, effect |-> effect, computed |-> 0, reads |-> {},
                   origin |-> sources]
      h1 == [h EXCEPT !.subs = Append(@, listener)]
  IN Subscribe(h1, n, sources, priority)

listen(h, sources, priority, once) == listenFn(h, sources, priority, once, NoEffect)

\* listen's unsub closure
unsub(h, n) ==
  LET l == SubOf(h, n)
      h1 == Unsubscribe(h, n, l.sources, l.priority)
  IN [h1 EXCEPT !.subs[n - NumVals].sources = <<>>]

\* the body of the effect of listener n, called with args: nothing, a read of
\* a derivation, a write of a Value, the unsubscribe closure of a listener, or
\* destroy of a derivation
RECURSIVE write(_, _, _)
RECURSIVE destroy(_, _)
effectRead(h, n, r) ==
  [r[1] EXCEPT !.log = Append(@, [to |-> n, from |-> SubOf(h, n).effect.arg, type |-> "READ",
                                  seen |-> r[1].value, args |-> <<r[2]>>])]
effect(h, n, args) ==
  CASE SubOf(h, n).effect.kind = "none" -> h
    [] SubOf(h, n).effect.kind = "read" -> effectRead(h, n, read(h, SubOf(h, n).effect.arg))
    [] SubOf(h, n).effect.kind = "write" -> write(h, SubOf(h, n).effect.arg, args[1] + 1)
    [] SubOf(h, n).effect.kind = "unsub" -> unsub(h, SubOf(h, n).effect.arg)
    [] SubOf(h, n).effect.kind = "destroy" -> destroy(h, SubOf(h, n).effect.arg)

\* listen's react: the effect is called with the values read from the sources
reactWith(h, n, from, args) ==
  effect([args[1] EXCEPT !.log = Append(@, [to |-> n, from |-> from, type |-> "UPDATE",
                                           seen |-> args[1].value, args |-> args[2]])],
         n, args[2])
reactOnce(h, n) == IF SubOf(h, n).once THEN unsub(h, n) ELSE h
react(h, n, from) == reactOnce(reactWith(h, n, from, readList(h, SubOf(h, n).list)), n)

\* fill of notifyDeps: the stack after pushing every Set of the pool, each
\* reversed. An element of the stack is <<subscriber, the pool it was taken from>>
\* (the pool is of no effect on the program).
Tagged(q, pid) == [i \in DOMAIN q |-> <<q[i], pid>>]

\* a faulty fill: the Sets are pushed as they are
RECURSIVE fill_forward(_, _, _, _)
fill_forward(h, stack, entries, pid) ==
  IF entries = <<>> THEN stack
  ELSE fill_forward(h, stack \o Tagged(h.sets[entries[1].value], pid), Tail(entries), pid)

\* a faulty fill: a subscriber that was popped before is not pushed again
RECURSIVE fill_unvisited(_, _, _, _)
fill_unvisited(h, stack, entries, pid) ==
  IF entries = <<>> THEN stack
  ELSE fill_unvisited(h,
         stack \o Tagged(SelectSeq(Reverse(h.sets[entries[1].value]),
                                   LAMBDA r : \A i \in DOMAIN h.log :
                                                ~(h.log[i].type = "POP" /\ h.log[i].to = r)),
                         pid),
         Tail(entries), pid)

\* a faulty fill: every Set is pushed twice
RECURSIVE fill_twice(_, _, _, _)
fill_twice(h, stack, entries, pid) ==
  IF entries = <<>> THEN stack
  ELSE fill_twice(h,
         stack \o Tagged(Reverse(h.sets[entries[1].value]), pid)
               \o Tagged(Reverse(h.sets[entries[1].value]), pid),
         Tail(entries), pid)

RECURSIVE fill(_, _, _, _)
fill(h, stack, entries, pid) ==
  IF entries = <<>> THEN stack
  ELSE fill(h, stack \o Tagged(Reverse(h.sets[entries[1].value]), pid), Tail(entries), pid)

RECURSIVE notifyLoop(_, _, _, _)
RECURSIVE onMessage(_, _, _, _)

\* a faulty notifyDeps: the pool is walked from its head
notifyDeps_backward(h, pid, from, type) ==
  notifyLoop(h, fill(h, <<>>, SAForEachBackward(h.pools[pid]), pid), from, type)

notifyDeps(h, pid, from, type) ==
  notifyLoop(h, fill(h, <<>>, SAForEach(h.pools[pid]), pid), from, type)

\* stack.pop(): the log records the subscriber and the pool it was taken from
popped(h, top, from) ==
  [h EXCEPT !.log = Append(@, [to |-> top[1], from |-> from, type |-> "POP", via |-> top[2],
                               seen |-> h.value, args |-> <<>>])]

\* a faulty loop: the dependents of a popped node go to the bottom of the stack
RECURSIVE notifyLoop_bottom(_, _, _, _)
notifyLoop_bottom(h, stack, from, type) ==
  IF stack = <<>> THEN h
  ELSE notifyLoop_bottom(
         onMessage(popped(h, stack[Len(stack)], from), stack[Len(stack)][1], from, type),
         IF Dependencies(h, stack[Len(stack)][1]) # 0
           THEN fill(h, <<>>, SAForEach(h.pools[Dependencies(h, stack[Len(stack)][1])]),
                     Dependencies(h, stack[Len(stack)][1]))
                  \o SubSeq(stack, 1, Len(stack) - 1)
           ELSE SubSeq(stack, 1, Len(stack) - 1),
         from, type)

notifyLoop(h, stack, from, type) ==
  IF stack = <<>> THEN h
  ELSE LET reactive == stack[Len(stack)][1]
           rest == SubSeq(stack, 1, Len(stack) - 1)
           h1 == onMessage(popped(h, stack[Len(stack)], from), reactive, from, type)
           dep == Dependencies(h1, reactive)
       IN notifyLoop(h1,
                     IF dep # 0 THEN fill(h1, rest, SAForEach(h1.pools[dep]), dep) ELSE rest,
                     from, type)

\* a faulty _onMessage: a derivation that receives Update recomputes at once
recompute(h, n) == readDerive(h, n, readList(h, SubOf(h, n).list))[1]
onMessage_eager(h, n, from, type) ==
  IF isDerive(h, n) THEN
    IF type = "UPDATE"
      THEN recompute([h EXCEPT !.subs[n - NumVals].computed = 0,
                               !.subs[n - NumVals].reads = {},
                               !.log = Append(@, [to |-> n, from |-> from, type |-> type,
                                                  seen |-> h.value, args |-> <<>>])], n)
      ELSE LET h0 == [h EXCEPT !.log = Append(@, [to |-> n, from |-> from, type |-> type,
                                                 seen |-> h.value, args |-> <<>>])]
           IN IF from \in Range(SubOf(h, n).sources)
                THEN LET left == SetDelete(SubOf(h, n).sources, from)
                         h1 == [h0 EXCEPT !.subs[n - NumVals].sources = left]
                     IN IF left = <<>> THEN destroy(h1, n)
                        ELSE [h1 EXCEPT !.subs[n - NumVals].list = left]
                ELSE h0
  ELSE
    IF type = "UPDATE" THEN react(h, n, from)
    ELSE LET left == SetDelete(SubOf(h, n).sources, from)
             h1 == [h EXCEPT !.subs[n - NumVals].sources = left,
                             !.log = Append(@, [to |-> n, from |-> from, type |-> type,
                                                seen |-> h.value, args |-> <<>>])]
         IN IF left # <<>> THEN [h1 EXCEPT !.subs[n - NumVals].list = left] ELSE h1

onMessage(h, n, from, type) ==
  IF isDerive(h, n) THEN
    IF type = "UPDATE"
      THEN [h EXCEPT !.subs[n - NumVals]._cache = nullCache,
                     !.subs[n - NumVals].computed = 0,
                     !.subs[n - NumVals].reads = {},
                     !.log = Append(@, [to |-> n, from |-> from, type |-> type,
                                        seen |-> h.value, args |-> <<>>])]
      ELSE LET h0 == [h EXCEPT !.log = Append(@, [to |-> n, from |-> from, type |-> type,
                                                 seen |-> h.value, args |-> <<>>])]
           IN IF from \in Range(SubOf(h, n).sources)
                THEN LET left == SetDelete(SubOf(h, n).sources, from)
                         h1 == [h0 EXCEPT !.subs[n - NumVals].sources = left]
                     IN IF left = <<>> THEN destroy(h1, n)
                        ELSE [h1 EXCEPT !.subs[n - NumVals].list = left]
                ELSE h0
  ELSE
    IF type = "UPDATE" THEN react(h, n, from)
    ELSE LET left == SetDelete(SubOf(h, n).sources, from)
             h1 == [h EXCEPT !.subs[n - NumVals].sources = left,
                             !.log = Append(@, [to |-> n, from |-> from, type |-> type,
                                                seen |-> h.value, args |-> <<>>])]
         IN IF left # <<>> THEN [h1 EXCEPT !.subs[n - NumVals].list = left] ELSE h1

\* a faulty _destroy: the dependents are not told
destroy_untold(h, n) ==
  [Unsubscribe(h, n, SubOf(h, n).sources, SubOf(h, n).priority)
     EXCEPT !.subs[n - NumVals].sources = <<>>]

\* a faulty _destroy: the derivation stays in the pools of its sources
destroy_subscribed(h, n) ==
  notifyDeps([h EXCEPT !.subs[n - NumVals].sources = <<>>],
             SubOf(h, n).dependencies, n, "SOURCE_DESTROYED")

\* a faulty _destroy: the cache is dropped as well
destroy_resets(h, n) ==
  notifyDeps([Unsubscribe(h, n, SubOf(h, n).sources, SubOf(h, n).priority)
                EXCEPT !.subs[n - NumVals].sources = <<>>,
                       !.subs[n - NumVals]._cache = nullCache],
             SubOf(h, n).dependencies, n, "SOURCE_DESTROYED")

\* derived._destroy()
destroy(h, n) ==
  LET d == SubOf(h, n)
      h1 == Unsubscribe(h, n, d.sources, d.priority)
      h2 == [h1 EXCEPT !.subs[n - NumVals].sources = <<>>]
  IN notifyDeps(h2, d.dependencies, n, "SOURCE_DESTROYED")

\* a faulty write: the dependents are not notified
write_unnotified(h, v, newValue) == [h EXCEPT !.value[v] = newValue]

\* a faulty write: a value equal to the present one is not written
write_ifChanged(h, v, newValue) ==
  IF h.value[v] = newValue THEN h
  ELSE notifyDeps([h EXCEPT !.value[v] = newValue], v, v, "UPDATE")

\* write(_value_, newValue) with a plain new value
write(h, v, newValue) ==
  notifyDeps([h EXCEPT !.value[v] = newValue], v, v, "UPDATE")

\* write(x, newValue) of any node x: the function raises, before it does
\* anything else, when x is not a Value. First a faulty one that writes the
\* cache of a derivation and notifies its dependents
writeOrThrow_unguarded(h, x, newValue) ==
  IF isVal(x) THEN [h |-> write(h, x, newValue), thrown |-> FALSE]
  ELSE IF isDerive(h, x)
    THEN [h |-> notifyDeps([h EXCEPT !.subs[x - NumVals]._cache = newValue],
                           Dependencies(h, x), x, "UPDATE"),
          thrown |-> FALSE]
  ELSE [h |-> h, thrown |-> TRUE]

writeOrThrow(h, x, newValue) ==
  IF ~isVal(x) THEN [h |-> h, thrown |-> TRUE]
  ELSE [h |-> write(h, x, newValue), thrown |-> FALSE]

\* ---------------------------------------------------------- transactions
success(v) == [tag |-> "success", value |-> v]
error(e) == [tag |-> "error", error |-> e]
isSuccess(t) == t.tag = "success"
isError(t) == t.tag = "error"

\* The producers of the model (the second argument of transaction.write):
\*   lit  : a plain value, arg
\*   step : old => old >= Lim ? error(old) : success(old + 1)
\*   ctx  : (_, c) => arg in c ? success(c[arg] + CtxAdd) : error(NoKey)
CtxAdd == 10
CtxOne == 5
NoKey == 99

\* runTransaction: <<heap, TransactionState>>. A producer that is a function is
\* called with read(_v_) and the context; h.calls records every evaluation, with
\* called = FALSE for a plain value
runTransaction(h, t, context) ==
  LET tr == h.trs[t]
      old == h.value[tr.target]
      res == CASE tr.newValue.kind = "lit" -> success(tr.newValue.arg)
               [] tr.newValue.kind = "step" ->
                    IF old >= Lim THEN error(old) ELSE success(old + 1)
               [] tr.newValue.kind = "ctx" ->
                    IF tr.newValue.arg \in DOMAIN context
                      THEN success(context[tr.newValue.arg] + CtxAdd)
                      ELSE error(NoKey)
  IN <<[h EXCEPT !.calls = Append(@, [tr |-> t, called |-> tr.newValue.kind # "lit",
                                     old |-> old, context |-> context,
                                     seen |-> h.value, res |-> res])], res>>

\* transaction.write(_value_, newValue, id)
writeT(h, target, newValue, id) ==
  [h EXCEPT !.trs = Append(@, [type |-> "write", target |-> target, newValue |-> newValue,
                               id |-> id, context |-> <<>>, dependencies |-> target,
                               children |-> <<>>])]

\* transaction.write(x, newValue, id) of any node x raises when x is not a Value
writeTOrThrow(h, x, newValue, id) ==
  IF ~isVal(x) THEN [h |-> h, thrown |-> TRUE]
  ELSE [h |-> writeT(h, x, newValue, id), thrown |-> FALSE]

\* PriorityPool.merge(p1, p2): <<heap, the new pool>>
RECURSIVE mergeFirst(_, _)
mergeFirst(result, entries) ==
  IF entries = <<>> THEN result
  ELSE mergeFirst(SAPush(result, entries[1].value, entries[1].index), Tail(entries))

RECURSIVE mergeSecond(_, _, _)
mergeSecond(h, result, entries) ==
  IF entries = <<>> THEN <<h, result>>
  ELSE LET p == SAGet(result, entries[1].index) IN
       IF p # Undef
         THEN LET sid == Len(h.sets) + 1
                  h1 == [h EXCEPT !.sets = Append(@, SetUnion(h.sets[p],
                                                              h.sets[entries[1].value]))]
              IN mergeSecond(h1, SAPush(result, sid, entries[1].index), Tail(entries))
         ELSE mergeSecond(h, SAPush(result, entries[1].value, entries[1].index),
                          Tail(entries))

merge(h, p1, p2) ==
  LET r1 == mergeFirst(SAEmpty, SAForEachBackward(h.pools[p1]))
      r2 == mergeSecond(h, r1, SAForEachBackward(h.pools[p2]))
  IN <<[r2[1] EXCEPT !.pools = Append(@, r2[2])], Len(h.pools) + 1>>

\* the dependencies loop of composeT: <<heap, pool>>
RECURSIVE mergeAll(_, _, _)
mergeAll(h, dependencies, children) ==
  IF children = <<>> THEN <<h, dependencies>>
  ELSE LET m == merge(h, dependencies, h.trs[children[1]].dependencies)
       IN mergeAll(m[1], m[2], Tail(children))

\* transaction.compose(...transactions), transactions not empty
composeT(h, children) ==
  LET m == mergeAll(h, h.trs[children[1]].dependencies, Tail(children))
  IN [m[1] EXCEPT !.trs = Append(@, [type |-> "compose", target |-> 0,
                                     newValue |-> [kind |-> "none", arg |-> 0],
                                     id |-> 0, context |-> <<>>, dependencies |-> m[2],
                                     children |-> children])]

\* silentRun of a write transaction or of a composite:
\* [h: heap, res: TransactionState, context: the context object afterwards].
\* The context is one object shared by reference: h.touched collects the write
\* transactions whose this.context is that object.
RECURSIVE silentRun(_, _, _)
RECURSIVE silentLoop(_, _, _, _)

\* a faulty silentRun: a write child commits (writes and notifies) as soon as its
\* producer succeeds
silentRun_commits(h, t, ctx) ==
  IF h.trs[t].type = "write"
    THEN LET r == runTransaction([h EXCEPT !.touched = @ \cup {t}], t, ctx)
         IN [h |-> IF isSuccess(r[2])
                     THEN notifyDeps([r[1] EXCEPT !.value[h.trs[t].target] = r[2].value],
                                     h.trs[t].target, h.trs[t].target, "UPDATE")
                     ELSE r[1],
             res |-> r[2], context |-> ctx]
    ELSE silentLoop(h, h.trs[t].children, success(<<>>), ctx)

\* a faulty loop of composeT.silentRun: the result of a child is never put into the context
silentLoop_forgets(h, children, resT, context) ==
  IF children = <<>> THEN [h |-> h, res |-> resT, context |-> context]
  ELSE LET tr == children[1]
           r == silentRun(h, tr, context)
       IN IF isError(r.res) THEN r
          ELSE silentLoop(r.h, Tail(children),
                          success(Append(resT.value, <<tr, r.res.value>>)), r.context)

\* a faulty loop of composeT.silentRun: the children after a failing one still run
silentLoop_through(h, children, resT, context) ==
  IF children = <<>> THEN [h |-> h, res |-> resT, context |-> context]
  ELSE LET tr == children[1]
           r == silentRun(h, tr, context)
       IN IF isError(r.res)
            THEN [silentLoop(r.h, Tail(children), resT, r.context) EXCEPT !.res = r.res]
          ELSE silentLoop(r.h, Tail(children),
                          success(Append(resT.value, <<tr, r.res.value>>)),
                          IF h.trs[tr].id # 0
                            THEN MapPut(r.context, h.trs[tr].id, r.res.value)
                            ELSE r.context)

silentRun(h, t, ctx) ==
  IF h.trs[t].type = "write"
    THEN LET r == runTransaction([h EXCEPT !.touched = @ \cup {t}], t, ctx)
         IN [h |-> r[1], res |-> r[2], context |-> ctx]
    ELSE silentLoop(h, h.trs[t].children, success(<<>>), ctx)

silentLoop(h, children, resT, context) ==
  IF children = <<>> THEN [h |-> h, res |-> resT, context |-> context]
  ELSE LET tr == children[1]
           r == silentRun(h, tr, context)
       IN IF isError(r.res) THEN r
          ELSE silentLoop(r.h, Tail(children),
                          success(Append(resT.value, <<tr, r.res.value>>)),
                          IF h.trs[tr].id # 0
                            THEN MapPut(r.context, h.trs[tr].id, r.res.value)
                            ELSE r.context)

\* the end of a call from outside: every this.context that refers to the context
\* object of this call holds its final content
RECURSIVE settle(_, _)
settle(h, context) ==
  IF h.touched = {} THEN h
  ELSE LET t == CHOOSE x \in h.touched : TRUE
       IN settle([h EXCEPT !.trs[t].context = context, !.touched = @ \ {t}], context)

\* write(entries) of composeT
RECURSIVE writeEntries(_, _)
writeEntries(h, entries) ==
  IF entries = <<>> THEN h
  ELSE LET tr == entries[1][1]
           v == entries[1][2]
           h1 == IF h.trs[tr].type = "write"
                   THEN [h EXCEPT !.value[h.trs[tr].target] = v]
                   ELSE writeEntries(h, v)
       IN writeEntries(h1, Tail(entries))

\* a faulty run: a write transaction goes through the plain write-and-notify
\* path and then notifies once more
run_notifiesTwice(h, t) ==
  IF h.trs[t].type = "write"
    THEN LET r == runTransaction(h, t, h.trs[t].context) IN
         IF isSuccess(r[2])
           THEN <<notifyDeps(write(r[1], h.trs[t].target, r[2].value),
                             h.trs[t].target, h.trs[t].target, "UPDATE"), r[2]>>
           ELSE r
    ELSE LET s == silentRun(h, t, <<>>)
             h1 == settle(s.h, s.context)
         IN IF isSuccess(s.res)
              THEN <<notifyDeps(writeEntries(h1, s.res.value), h.trs[t].dependencies,
                                0, "UPDATE"),
                     success(s.res.value[Len(s.res.value)][2])>>
              ELSE <<h1, s.res>>

\* a faulty run: a write transaction notifies whatever its producer returned
run_notifiesOnError(h, t) ==
  IF h.trs[t].type = "write"
    THEN LET r == runTransaction(h, t, h.trs[t].context) IN
         IF isSuccess(r[2])
           THEN <<notifyDeps([r[1] EXCEPT !.value[h.trs[t].target] = r[2].value],
                             h.trs[t].target, h.trs[t].target, "UPDATE"), r[2]>>
           ELSE <<notifyDeps(r[1], h.trs[t].target, h.trs[t].target, "UPDATE"), r[2]>>
    ELSE LET s == silentRun(h, t, <<>>)
             h1 == settle(s.h, s.context)
         IN IF isSuccess(s.res)
              THEN <<notifyDeps(writeEntries(h1, s.res.value), h.trs[t].dependencies,
                                0, "UPDATE"),
                     success(s.res.value[Len(s.res.value)][2])>>
              ELSE <<h1, s.res>>

\* tr.run(): <<heap, TransactionState>>
run(h, t) ==
  IF h.trs[t].type = "write"
    THEN LET r == runTransaction(h, t, h.trs[t].context) IN
         IF isSuccess(r[2])
           THEN <<notifyDeps([r[1] EXCEPT !.value[h.trs[t].target] = r[2].value],
                             h.trs[t].target, h.trs[t].target, "UPDATE"), r[2]>>
           ELSE r
    ELSE LET s == silentRun(h, t, <<>>)
             h1 == settle(s.h, s.context)
         IN IF isSuccess(s.res)
              THEN <<notifyDeps(writeEntries(h1, s.res.value), h.trs[t].dependencies,
                                0, "UPDATE"),
                     success(s.res.value[Len(s.res.value)][2])>>
              ELSE <<h1, s.res>>

\* ------------------------------------------------------------ the machine
Heap == [value |-> value, subs |-> subs, sets |-> sets, pools |-> pools, trs |-> trs,
         log |-> <<>>, calls |-> <<>>, touched |-> {}]

\* what an operation that has returned leaves behind
Store(h, r) ==
  /\ nexec' = IF r.op \in {"read", "write", "run", "silentRun"} THEN nexec + 1 ELSE nexec
  /\ r.op \in {"read", "write", "run", "silentRun"} => nexec < MaxExec
  /\ value' = h.value
  /\ subs' = h.subs
  /\ sets' = h.sets
  /\ pools' = h.pools
  /\ trs' = h.trs
  /\ log' = h.log
  /\ calls' = h.calls
  /\ ret' = r
  /\ pre' = [value |-> value, subs |-> subs, trs |-> trs, sets |-> sets, pools |-> pools]

Nodes == 1..(NumVals + Len(subs))
Derivations == {n \in Nodes : n > NumVals /\ subs[n - NumVals].tag = "rder"}
NumWrites == Cardinality({t \in DOMAIN trs : trs[t].type = "write"})
Composites == {t \in DOMAIN trs : trs[t].type = "compose"}

\* the source lists handed to derive and listen: one source, or (when two is
\* TRUE) two distinct ones, among the Values vals and the derivations
SourceLists(vals, two) ==
  LET S == vals \cup Derivations
  IN {<<a>> : a \in S} \cup {q \in S \X S : two /\ q[1] < q[2]}

\* the argument lists handed to transaction.compose
ChildLists(n) == UNION {[1..k -> DOMAIN trs] : k \in 1..n}

Init ==
  /\ value = [v \in 1..NumVals |-> 0]
  /\ subs = <<>>
  /\ sets = <<>>
  /\ pools = [v \in 1..NumVals |-> SAEmpty]
  /\ trs = <<>>
  /\ log = <<>>
  /\ calls = <<>>
  /\ ret = [op |-> "init"]
  /\ pre = [value |-> value, subs |-> subs, trs |-> trs, sets |-> sets, pools |-> pools]
  /\ nexec = 0

\* The nodes are made first, then the transactions, then come the reads and
\* the runs; a transaction.write targets a Value that already is a target, or
\* the next Value (the first targets Value 1: the Values are interchangeable).
Derive(vals, two, priorities) ==
  \E sources \in SourceLists(vals, two), priority \in priorities :
    /\ Len(subs) < MaxSubs /\ trs = <<>> /\ nexec = 0
    /\ Store(derive(Heap, sources, priority), [op |-> "derive"])

Listen(vals, two, priorities) ==
  \E sources \in SourceLists(vals, two), priority \in priorities :
    /\ Len(subs) < MaxSubs /\ trs = <<>> /\ nexec = 0
    /\ Store(listen(Heap, sources, priority, FALSE), [op |-> "listen"])

Read ==
  \E n \in Derivations :
    \E r \in {read(Heap, n)} : Store(r[1], [op |-> "read", n |-> n, res |-> r[2]])

TWrite(choices, max, fresh) ==
  \E c \in choices, target \in 1..NumVals :
    /\ NumWrites < max /\ target <= NumWrites + 1 /\ Len(trs) = NumWrites /\ nexec = 0
    /\ fresh => target = NumWrites + 1
    /\ Store(writeT(Heap, target, c.newValue, c.id), [op |-> "transaction.write"])

TCompose(n, max) ==
  \E children \in ChildLists(n) :
    /\ Len(trs) - NumWrites < max /\ nexec = 0
    /\ Store(composeT(Heap, children), [op |-> "transaction.compose"])

Run(ts) ==
  \E t \in ts :
    \E r \in {run(Heap, t)} : Store(r[1], [op |-> "run", t |-> t, res |-> r[2]])

\* tr.silentRun(ctx) with ctx = {[id 1]: CtxOne}
SilentRun ==
  \E t \in DOMAIN trs, ctx \in {<<CtxOne>>} :
    \E s \in {silentRun(Heap, t, ctx)} :
      Store(settle(s.h, s.context),
            [op |-> "silentRun", t |-> t, res |-> s.res, ctx |-> ctx, context |-> s.context])

\* Spec: the transactions with every producer, over nodes of the base priority
WriteChoices ==
  {[newValue |-> [kind |-> "lit", arg |-> 1], id |-> 1],
   [newValue |-> [kind |-> "step", arg |-> 0], id |-> 0],
   [newValue |-> [kind |-> "ctx", arg |-> 1], id |-> 1]}

Next ==
  \/ Derive(1..MaxWrites, FALSE, {0})
  \/ Listen(1..MaxWrites, FALSE, {0})
  \/ Read
  \/ TWrite(WriteChoices, MaxWrites, FALSE)
  \/ TCompose(MaxChildren, MaxCompose)
  \/ Run(DOMAIN trs)
  \/ SilentRun

Spec == Init /\ [][Next]_vars

\* SpecWrite: single write transactions, over nodes of either priority that
\* may have two sources
NextWrite ==
  \/ Derive(1..MaxWrites, FALSE, 0..MaxPrio)
  \/ Listen(1..MaxWrites, TRUE, 0..MaxPrio)
  \/ Read
  \/ TWrite(WriteChoices, MaxWrites, FALSE)
  \/ Run(DOMAIN trs)
  \/ SilentRun

SpecWrite == Init /\ [][NextWrite]_vars

\* SpecMerge: composites of up to MaxMerge plain-value writes, each write
\* transaction to a Value of its own, over nodes of the base priority that may
\* have two sources
MergeChoices == {[newValue |-> [kind |-> "lit", arg |-> 1], id |-> 0]}

NextMerge ==
  \/ Derive(1..NumVals, TRUE, {0})
  \/ Listen(1..NumVals, TRUE, {0})
  \/ TWrite(MergeChoices, NumVals, TRUE)
  \/ TCompose(MaxMerge, MaxCompose)
  \/ Run(Composites)

SpecMerge == Init /\ [][NextMerge]_vars

\* ------------------------------------------------- the plain interface
\* priorities.lowest and priorities.highest; before and after throw at the ends
plowest == -1000
phighest == 1000
Thrown == [thrown |-> TRUE]
Returned(p) == [thrown |-> FALSE, value |-> p]
\* a faulty before: the highest priority itself may be passed
before_pastTheEnd(p) == IF p > phighest THEN Thrown ELSE Returned(p + 1)
before(p) == IF p >= phighest THEN Thrown ELSE Returned(p + 1)
after(p) == IF p <= plowest THEN Thrown ELSE Returned(p - 1)

\* what one of at most max reads, writes and destroys leaves behind
StoreOp(h, r, max) ==
  /\ nexec < max
  /\ nexec' = nexec + 1
  /\ value' = h.value
  /\ subs' = h.subs
  /\ sets' = h.sets
  /\ pools' = h.pools
  /\ trs' = h.trs
  /\ log' = h.log
  /\ calls' = h.calls
  /\ ret' = r
  /\ pre' = [value |-> value, subs |-> subs, trs |-> trs, sets |-> sets, pools |-> pools]

\* derive and listen while the graph has fewer than max nodes, before the
\* first read, write or destroy
DeriveAt(max, vals, two, priorities) ==
  \E sources \in SourceLists(vals, two), priority \in priorities :
    /\ Len(subs) < max /\ nexec = 0
    /\ Store(derive(Heap, sources, priority), [op |-> "derive"])

ListenAt(max, vals, two, priorities, effects) ==
  \E sources \in SourceLists(vals, two), priority \in priorities, e \in effects :
    /\ Len(subs) < max /\ nexec = 0
    /\ Store(listenFn(Heap, sources, priority, FALSE, e), [op |-> "listen"])

\* write(v, x)
Write(vals, xs, max) ==
  \E v \in vals, x \in xs :
    StoreOp(write(Heap, v, x), [op |-> "write", v |-> v, x |-> x], max)

\* read raises for what is neither a Value nor a derivation, and for nothing else
readThrows(h, n) == ~isVal(n) /\ ~isDerive(h, n)

\* read(n) of a derivation
ReadAt(max) ==
  \E n \in Derivations :
    \E r \in {read(Heap, n)} :
      StoreOp(r[1], [op |-> "read", n |-> n, res |-> r[2], thrown |-> readThrows(Heap, n)], max)

\* _destroy raises when a source has no pool of the derivation's priority:
\* dependencies.get(priority) is then undefined
destroyThrows(h, n) ==
  \E s \in Range(SubOf(h, n).sources) :
    SAGet(h.pools[Dependencies(h, s)], SubOf(h, n).priority) = Undef

\* destroy(n)
Destroy(max) ==
  \E n \in Derivations :
    StoreOp(destroy(Heap, n), [op |-> "destroy", n |-> n, thrown |-> destroyThrows(Heap, n)], max)

\* SpecPrio: writes to one Value under nodes of any priority,
\* the ends and one step beyond them included
PrioChoices == {plowest - 1, plowest, 0, phighest, phighest + 1}

NextPrio ==
  \/ DeriveAt(MaxNodes, {1}, TRUE, PrioChoices)
  \/ ListenAt(MaxNodes, {1}, TRUE, PrioChoices, {NoEffect})
  \/ Write({1}, {1}, MaxPlain)

SpecPrio == Init /\ [][NextPrio]_vars

\* SpecGlitch: listeners that read a derivation, registered with
\* priorities.before(d) or priorities.after(d) of a derivation d
Beside ==
  {r.value : r \in {r \in {before(subs[d - NumVals].priority) : d \in Derivations}
                            \cup {after(subs[d - NumVals].priority) : d \in Derivations} :
                       ~r.thrown}}
ReadEffects == {[kind |-> "read", arg |-> d] : d \in Derivations}

NextGlitch ==
  \/ DeriveAt(MaxNodes, {1}, FALSE, {plowest, 0, phighest})
  \/ ListenAt(MaxNodes, {1}, FALSE, Beside, ReadEffects)
  \/ ReadAt(MaxOps)
  \/ Write({1}, 0..1, MaxOps)

SpecGlitch == Init /\ [][NextGlitch]_vars

\* SpecNested: a listener on Value 1 whose effect writes Value 2, among
\* derivations and listeners of both Values
WriteEffect == [kind |-> "write", arg |-> 2]

ListenWriter(max, priorities) ==
  \E priority \in priorities :
    /\ Len(subs) < max /\ nexec = 0
    /\ Store(listenFn(Heap, <<1>>, priority, FALSE, WriteEffect), [op |-> "listen"])

NextNested ==
  \/ DeriveAt(MaxNested, 1..2, TRUE, {0})
  \/ ListenAt(MaxNested, 1..2, FALSE, 0..MaxPrio, {NoEffect})
  \/ ListenWriter(MaxNested, 0..MaxPrio)
  \/ Write(1..2, {1}, MaxPlain)

SpecNested == Init /\ [][NextNested]_vars

\* SpecDestroy: reads, writes and destroys over derivations and listeners of
\* one or two sources
NextDestroy ==
  \/ DeriveAt(MaxNodes, 1..2, TRUE, {0})
  \/ ListenAt(MaxNodes, 1..2, TRUE, {0}, {NoEffect})
  \/ ReadAt(MaxOps)
  \/ Write(1..2, {1}, MaxOps)
  \/ Destroy(MaxOps)

SpecDestroy == Init /\ [][NextDestroy]_vars

\* derive and listen at any time, over sources that may have been destroyed;
\* neither function has a statement that raises
DeriveOn(max, vals) ==
  \E sources \in SourceLists(vals, TRUE) :
    /\ Len(subs) < max
    /\ Store(derive(Heap, sources, 0),
             [op |-> "derive", n |-> NumVals + Len(subs) + 1, thrown |-> FALSE])

ListenOn(max, vals) ==
  \E sources \in SourceLists(vals, TRUE) :
    /\ Len(subs) < max
    /\ Store(listenFn(Heap, sources, 0, FALSE, NoEffect),
             [op |-> "listen", n |-> NumVals + Len(subs) + 1, thrown |-> FALSE])

\* SpecLate: derivations and listeners made before and after the destroys
NextLate ==
  \/ DeriveOn(MaxNodes, 1..2)
  \/ ListenOn(MaxNodes, 1..2)
  \/ Write(1..2, {1}, MaxOps)
  \/ Destroy(MaxOps)

SpecLate == Init /\ [][NextLate]_vars

\* the unsubscribe closure that listen returned for listener n
Unsub(max) ==
  \E n \in {NumVals + k : k \in {k \in DOMAIN subs : subs[k].tag = "listener"}} :
    StoreOp(unsub(Heap, n), [op |-> "unsub", n |-> n], max)

\* SpecUnsub: listeners are unsubscribed among writes, destroys and the runs
\* of write transactions and of composites made before
NextUnsub ==
  \/ DeriveAt(MaxSubs, 1..2, FALSE, {0})
  \/ ListenAt(MaxSubs, 1..2, TRUE, {0}, {NoEffect})
  \/ TWrite(MergeChoices, MaxWrites, TRUE)
  \/ TCompose(MaxWrites, MaxCompose)
  \/ Unsub(MaxOps)
  \/ Write(1..2, {1}, MaxOps)
  \/ Destroy(MaxOps)
  \/ Run(DOMAIN trs)

SpecUnsub == Init /\ [][NextUnsub]_vars

\* listen(sources, fn, {priority, once: true})
ListenOnce(max, vals, priorities) ==
  \E sources \in SourceLists(vals, TRUE), priority \in priorities :
    /\ Len(subs) < max /\ nexec = 0
    /\ Store(listenFn(Heap, sources, priority, TRUE, NoEffect), [op |-> "listen"])

\* SpecOnce: once listeners of one or two sources under writes, with
\* derivations between them and a listener on Value 1 that writes Value 2
NextOnce ==
  \/ DeriveAt(MaxNodes, 1..2, FALSE, {0})
  \/ ListenOnce(MaxNodes, 1..2, 0..MaxPrio)
  \/ ListenWriter(MaxNodes, 0..MaxPrio)
  \/ Write(1..2, {1}, MaxExec)

SpecOnce == Init /\ [][NextOnce]_vars

\* peek(n, values) of a derivation, with one value for each source it was made from
PeekValues(n) == [1..Len(subs[n - NumVals].origin) -> 0..MaxPlain]

Peek(max) ==
  \E n \in Derivations :
    \E values \in PeekValues(n) :
      \E r \in {peek(Heap, n, values)} :
        StoreOp(r[1], [op |-> "peek", n |-> n, values |-> values, res |-> r[2]], max)

\* SpecPeek: peeks among the reads and the writes of one Value
NextPeek ==
  \/ DeriveAt(MaxNodes, {1}, TRUE, {0})
  \/ ListenAt(MaxNodes, {1}, TRUE, {0}, {NoEffect})
  \/ ReadAt(MaxOps)
  \/ Write({1}, 0..1, MaxOps)
  \/ Peek(MaxOps)

SpecPeek == Init /\ [][NextPeek]_vars

\* the pivot of before and after: a number, or a derivation (then its priority)
priorityOf(h, p0) == IF p0.kind = "number" THEN p0.arg ELSE SubOf(h, p0.arg).priority

PivotNumbers ==
  ((plowest - 2)..(plowest + 2)) \cup (-1..1) \cup ((phighest - 2)..(phighest + 2))
Pivots ==
  {[kind |-> "number", arg |-> p] : p \in PivotNumbers}
    \cup {[kind |-> "derive", arg |-> d] : d \in Derivations}

\* priorities.before(p0) and priorities.after(p0)
Before(max) ==
  \E p0 \in Pivots :
    StoreOp(Heap, [op |-> "before", p0 |-> p0, res |-> before(priorityOf(Heap, p0))], max)

After(max) ==
  \E p0 \in Pivots :
    StoreOp(Heap, [op |-> "after", p0 |-> p0, res |-> after(priorityOf(Heap, p0))], max)

\* SpecPivot: before and after of numbers around the ends and of derivations
\* of any priority
NextPivot ==
  \/ DeriveAt(MaxSubs, {1}, FALSE, PrioChoices)
  \/ Before(MaxExec)
  \/ After(MaxExec)

SpecPivot == Init /\ [][NextPivot]_vars

\* write(x, 1) and transaction.write(x, 1) of any node x
WriteAny(max) ==
  \E x \in Nodes :
    \E w \in {writeOrThrow(Heap, x, 1)} :
      StoreOp(w.h, [op |-> "write", v |-> x, x |-> 1, thrown |-> w.thrown], max)

TWriteAny(max) ==
  \E x \in Nodes, c \in MergeChoices :
    \E w \in {writeTOrThrow(Heap, x, c.newValue, c.id)} :
      /\ Len(trs) < max
      /\ Store(w.h, [op |-> "transaction.write", v |-> x, thrown |-> w.thrown])

\* SpecGuard: writes and write transactions aimed at Values, derivations and listeners
NextGuard ==
  \/ DeriveAt(MaxNodes, {1}, FALSE, {0})
  \/ ListenAt(MaxNodes, {1}, FALSE, {0}, {NoEffect})
  \/ ReadAt(MaxOps)
  \/ WriteAny(MaxOps)
  \/ TWriteAny(MaxWrites)
  \/ Run(DOMAIN trs)

SpecGuard == Init /\ [][NextGuard]_vars

\* SpecNest: composites of write transactions and of composites, run over
\* derivations and listeners of the written Values
NextNest ==
  \/ Derive(1..MaxWrites, FALSE, {0})
  \/ Listen(1..MaxWrites, FALSE, {0})
  \/ TWrite(WriteChoices, MaxWrites, TRUE)
  \/ TCompose(MaxWrites, MaxWrites)
  \/ Run(Composites)

SpecNest == Init /\ [][NextNest]_vars

\* listen over one, two or three distinct sources
SourceTriples(vals) ==
  LET S == vals \cup Derivations
  IN SourceLists(vals, TRUE) \cup {q \in S \X S \X S : q[1] < q[2] /\ q[2] < q[3]}

ListenAll(max, vals, priorities) ==
  \E sources \in SourceTriples(vals), priority \in priorities :
    /\ Len(subs) < max /\ nexec = 0
    /\ Store(listenFn(Heap, sources, priority, FALSE, NoEffect), [op |-> "listen"])

\* SpecPaths: one write to a Value under derivations of it and listeners of
\* up to three sources, of either priority
NextPaths ==
  \/ DeriveAt(MaxNodes, {1}, TRUE, 0..MaxPrio)
  \/ ListenAll(MaxNodes, {1}, 0..MaxPrio)
  \/ Write({1}, {1}, MaxPlain)

SpecPaths == Init /\ [][NextPaths]_vars

\* SpecSparse: pushes and deletes on one SparseArray, the pool of Value 1
SparseIndexes == 0..MaxWrites
SparseValues == 1..MaxWrites

PushAt(max) ==
  \E v \in SparseValues, index \in SparseIndexes :
    StoreOp([Heap EXCEPT !.pools[1] = SAPush(@, v, index)],
            [op |-> "push", v |-> v, index |-> index], max)

PushLast(max) ==
  \E v \in SparseValues :
    StoreOp([Heap EXCEPT !.pools[1] = SAPushLast(@, v)], [op |-> "push", v |-> v], max)

DeleteAt(max) ==
  \E index \in SparseIndexes :
    StoreOp([Heap EXCEPT !.pools[1] = SADelete(@, index)],
            [op |-> "delete", index |-> index], max)

NextSparse ==
  \/ PushAt(MaxOps)
  \/ PushLast(MaxOps)
  \/ DeleteAt(MaxOps)

SpecSparse == Init /\ [][NextSparse]_vars

\* SpecPool: composites of one or two children, write transactions or
\* composites, made over derivations and listeners of either priority
NextPool ==
  \/ Derive(1..MaxWrites, FALSE, 0..MaxPrio)
  \/ Listen(1..MaxWrites, TRUE, 0..MaxPrio)
  \/ TWrite(MergeChoices, MaxWrites, TRUE)
  \/ TCompose(MaxWrites, MaxWrites)

SpecPool == Init /\ [][NextPool]_vars

\* SpecChain: runs and silent runs of composites of write transactions and of
\* composites, with producers that may fail
NextChain ==
  \/ TWrite(WriteChoices, MaxWrites, FALSE)
  \/ TCompose(MaxWrites, MaxWrites)
  \/ Run(DOMAIN trs)
  \/ SilentRun

SpecChain == Init /\ [][NextChain]_vars

\* SpecCache: reads, writes and runs of write transactions and composites over
\* derivations of either priority, made before or after the transactions
NextCache ==
  \/ DeriveAt(MaxSubs, 1..MaxWrites, TRUE, 0..MaxPrio)
  \/ TWrite(MergeChoices, MaxWrites, TRUE)
  \/ TCompose(MaxChildren, MaxCompose)
  \/ ReadAt(MaxExec)
  \/ Write(1..MaxWrites, {1}, MaxExec)
  \/ Run(DOMAIN trs)

SpecCache == Init /\ [][NextCache]_vars

\* SpecAfter: derivations and listeners of either priority made before, between
\* and after the transactions, then the runs. A node made by these actions
\* carries born (of no effect): the number of transactions that existed when
\* it was made.
Born(h, k) == [h EXCEPT !.subs[Len(h.subs)] = @ @@ [born |-> k]]

DeriveThen(max, vals, priorities) ==
  \E sources \in SourceLists(vals, TRUE), priority \in priorities :
    /\ Len(subs) < max /\ nexec = 0
    /\ Store(Born(derive(Heap, sources, priority), Len(trs)), [op |-> "derive"])

ListenThen(max, vals, priorities) ==
  \E sources \in SourceLists(vals, TRUE), priority \in priorities :
    /\ Len(subs) < max /\ nexec = 0
    /\ Store(Born(listen(Heap, sources, priority, FALSE), Len(trs)), [op |-> "listen"])

NextAfter ==
  \/ DeriveThen(MaxSubs, 1..MaxWrites, 0..MaxPrio)
  \/ ListenThen(MaxSubs, 1..MaxWrites, 0..MaxPrio)
  \/ TWrite(MergeChoices, MaxWrites, TRUE)
  \/ TCompose(MaxWrites, MaxCompose)
  \/ Run(DOMAIN trs)

SpecAfter == Init /\ [][NextAfter]_vars

\* SpecCancel: one write to a Value under derivations and listeners of either
\* priority; the effect of a listener does nothing, calls the unsubscribe
\* closure of a listener, or destroys a derivation
ListenerIds == {n \in Nodes : n > NumVals /\ subs[n - NumVals].tag = "listener"}
UnsubEffects == {[kind |-> "unsub", arg |-> l] : l \in ListenerIds}
DestroyEffects == {[kind |-> "destroy", arg |-> d] : d \in Derivations}

NextCancel ==
  \/ DeriveAt(MaxNodes, {1}, FALSE, 0..MaxPrio)
  \/ ListenAt(MaxNodes, {1}, FALSE, 0..MaxPrio, {NoEffect} \cup UnsubEffects \cup DestroyEffects)
  \/ Write({1}, {1}, MaxWrites)

SpecCancel == Init /\ [][NextCancel]_vars

\* SpecHalt: writes, runs of write transactions and composites, and destroys
\* over the derivations (of one or two sources and either priority) and the
\* listeners (of one source) that hang from one Value; the effect of a listener does nothing or calls the unsubscribe
\* closure of a listener
NextHalt ==
  \/ DeriveAt(MaxNodes, {1}, TRUE, 0..MaxPrio)
  \/ ListenAt(MaxNodes, {1}, FALSE, {0}, {NoEffect} \cup UnsubEffects)
  \/ TWrite(MergeChoices, MaxWrites, FALSE)
  \/ TCompose(MaxWrites, MaxCompose)
  \/ Write({1}, {1}, MaxPlain)
  \/ Run(DOMAIN trs)
  \/ Destroy(MaxPlain)

SpecHalt == Init /\ [][NextHalt]_vars

\* ------------------------------------------------------------------ claims
RanComposite == ret.op = "run" /\ trs[ret.t].type = "compose"
RanWrite == ret.op = "run" /\ trs[ret.t].type = "write"
TargetOf(i) == trs[calls[i].tr].target
IdOf(i) == trs[calls[i].tr].id
SubIds == {NumVals + k : k \in DOMAIN subs}
SubscribedTo(v) == {n \in SubIds : v \in Range(subs[n - NumVals].sources)}
Max(S) == CHOOSE x \in S : \A y \in S : y <= x

\* the value the run gives Value v: that of the last child that targets v
NewValue(v) ==
  LET idx == {i \in DOMAIN calls : TargetOf(i) = v}
  IN IF idx = {} THEN pre.value[v] ELSE calls[Max(idx)].res.value

\* C1: when a producer of a composite returns Error, run() leaves every Value
\* at its pre-run value, changes no node (no cache is cleared), delivers no
\* message and returns the Error of the first failing producer.
C1_ErrorCompositeChangesNothing ==
  (RanComposite /\ isError(ret.res)) =>
    /\ value = pre.value
    /\ subs = pre.subs
    /\ log = <<>>
    /\ \E i \in DOMAIN calls :
         /\ isError(calls[i].res)
         /\ ret.res = calls[i].res
         /\ \A j \in 1..(i - 1) : isSuccess(calls[j].res)

\* a composite of three children whose second fails after the first produced a
\* new value for a Value that has a subscriber
C1_Witness ==
  /\ RanComposite /\ isError(ret.res)
  /\ Len(trs[ret.t].children) = 3 /\ Len(calls) = 2
  /\ isSuccess(calls[1].res) /\ calls[1].res.value # pre.value[TargetOf(1)]
  /\ SubscribedTo(TargetOf(1)) # {}

\* C2: in a successful run() of a composite every message of the commit wave is
\* delivered when every Value already holds its new value, the value of the
\* last child (in argument order) that targets it.
C2_WritesBeforeMessages ==
  (RanComposite /\ isSuccess(ret.res)) =>
    /\ \A v \in 1..NumVals : value[v] = NewValue(v)
    /\ \A i \in DOMAIN log : \A v \in 1..NumVals : log[i].seen[v] = NewValue(v)

\* two children give one Value two different values and a listener is invoked
C2_Witness ==
  /\ RanComposite /\ isSuccess(ret.res)
  /\ \E i, j \in DOMAIN calls :
       i < j /\ TargetOf(i) = TargetOf(j) /\ calls[i].res.value # calls[j].res.value
  /\ \E v \in 1..NumVals : NewValue(v) # pre.value[v] /\ \E w \in 1..NumVals : w # v /\ NewValue(w) # pre.value[w]
  /\ \E i \in DOMAIN log : subs[log[i].to - NumVals].tag = "listener"

\* C5: during run() of a composite every producer is called with the pre-run
\* value of its target, and a read of any Value inside it gives the pre-run value.
C5_ProducersSeePreRunValues ==
  RanComposite =>
    \A i \in DOMAIN calls :
      calls[i].called => calls[i].old = pre.value[TargetOf(i)] /\ calls[i].seen = pre.value

\* an earlier child has produced a new value for the Value a later producer is called for
C5_Witness ==
  /\ RanComposite
  /\ \E i, j \in DOMAIN calls :
       /\ i < j /\ TargetOf(i) = TargetOf(j) /\ calls[j].called
       /\ isSuccess(calls[i].res) /\ calls[i].res.value # pre.value[TargetOf(i)]

Updates(n) == Cardinality({i \in DOMAIN log : log[i].to = n /\ log[i].type = "UPDATE"})

\* the number of subscription paths from Value v to node n
RECURSIVE Paths(_, _)
RECURSIVE PathSum(_, _)
Paths(n, v) ==
  IF isVal(n) THEN (IF n = v THEN 1 ELSE 0) ELSE PathSum(subs[n - NumVals].sources, v)
PathSum(q, v) == IF q = <<>> THEN 0 ELSE Paths(q[1], v) + PathSum(Tail(q), v)

\* C8 as stated: a successful run() of a write transaction delivers exactly one
\* Update to each direct subscriber of the target.
C8_ExactlyOneUpdate ==
  (RanWrite /\ isSuccess(ret.res)) =>
    \A n \in SubscribedTo(trs[ret.t].target) : Updates(n) = 1

\* C8 amended: transaction.write changes no Value and no node, calls no producer
\* and delivers no message; a run() whose producer returns Success(v) calls the
\* producer once, sets the target to v and no other Value, returns Success(v)
\* and delivers to every node one Update for each subscription path from the
\* target to it (exactly one to a direct subscriber that has no other path).
C8_WriteTransaction ==
  /\ ret.op = "transaction.write" =>
        value = pre.value /\ subs = pre.subs /\ log = <<>> /\ calls = <<>>
  /\ (RanWrite /\ isSuccess(ret.res)) =>
        /\ Len(calls) = 1 /\ ret.res = calls[1].res
        /\ value = [pre.value EXCEPT ![trs[ret.t].target] = ret.res.value]
        /\ \A n \in SubIds : Updates(n) = Paths(n, trs[ret.t].target)

\* a run gives the target a new value; one direct subscriber has no other path
\* from the target, another is also subscribed to a derivation of the target
C8_Witness ==
  /\ RanWrite /\ isSuccess(ret.res)
  /\ value[trs[ret.t].target] # pre.value[trs[ret.t].target]
  /\ \E n, m \in SubscribedTo(trs[ret.t].target) : Updates(n) = 1 /\ Updates(m) = 2

\* C9: a run() of a write transaction calls the producer once, with the value
\* the target holds when run() is called; when the producer returns Error(e),
\* run() returns Error(e), changes no Value and no node and delivers no message.
C9_ErrorWriteChangesNothing ==
  RanWrite =>
    /\ Len(calls) = 1 /\ ret.res = calls[1].res
    /\ calls[1].old = pre.value[trs[ret.t].target] /\ calls[1].seen = pre.value
    /\ isError(ret.res) => value = pre.value /\ subs = pre.subs /\ log = <<>>

\* a producer that succeeded in an earlier run fails against the value that run
\* has written, and the target has a subscriber
C9_Witness ==
  /\ RanWrite /\ isError(ret.res)
  /\ trs[ret.t].newValue.kind = "step"
  /\ ret.res.error = value[trs[ret.t].target] /\ ret.res.error # 0
  /\ SubscribedTo(trs[ret.t].target) # {}

RanSilent == ret.op = "silentRun"
NoContext(tr) == [tr EXCEPT !.context = <<>>]

\* the ids a silentRun adds to its argument: those of the children of the
\* composite whose producers returned Success
AddedIds ==
  IF trs[ret.t].type = "compose"
    THEN {IdOf(i) : i \in {j \in DOMAIN calls : isSuccess(calls[j].res)}} \ {0}
    ELSE {}

\* C10 as stated: silentRun(ctx) changes no Value, clears no cache, delivers no
\* message, and has no effect but its result and the ids it adds to ctx.
C10_OnlyResultAndContext ==
  RanSilent =>
    /\ value = pre.value /\ subs = pre.subs /\ log = <<>>
    /\ trs = pre.trs

\* C10 amended: silentRun(ctx) changes no Value, clears no cache and delivers no
\* message; its only effects are the returned result, the ids it adds to ctx,
\* and that every write transaction it has evaluated keeps ctx as the context
\* its run() hands to the producer.
C10_SilentRunFrame ==
  RanSilent =>
    /\ value = pre.value /\ subs = pre.subs /\ log = <<>>
    /\ DOMAIN ret.context = DOMAIN ret.ctx \cup AddedIds
    /\ \A k \in DOMAIN ret.ctx \ AddedIds : ret.context[k] = ret.ctx[k]
    /\ DOMAIN trs = DOMAIN pre.trs
    /\ \A t \in DOMAIN trs :
         /\ NoContext(trs[t]) = NoContext(pre.trs[t])
         /\ trs[t].context =
              IF t \in {calls[i].tr : i \in DOMAIN calls} THEN ret.context
              ELSE pre.trs[t].context

\* the silentRun of a composite whose producers all succeed and give a Value
\* with a subscriber a new value, while a derivation holds a cached result
C10_Witness ==
  /\ RanSilent /\ trs[ret.t].type = "compose" /\ isSuccess(ret.res)
  /\ ret.context # ret.ctx /\ trs # pre.trs
  /\ \E i \in DOMAIN calls :
       calls[i].res.value # value[TargetOf(i)] /\ SubscribedTo(TargetOf(i)) # {}
  /\ \E k \in DOMAIN subs : subs[k]._cache # nullCache

\* the Values the composite that has run writes to
Targets == {TargetOf(i) : i \in DOMAIN calls}

\* C3: after a successful run() of a composite, every derivation or listener
\* subscribed to the target of any child has received at least one Update.
C3_EverySubscriberUpdated ==
  (RanComposite /\ isSuccess(ret.res)) =>
    \A v \in Targets : \A n \in SubscribedTo(v) : Updates(n) >= 1

\* C4: in a successful run() of a composite, a derivation or listener subscribed
\* to two or more of the target Values receives exactly one Update, and so does
\* a listener whose only source is a derivation over the targets.
C4_SharedSubscriberUpdatedOnce ==
  (RanComposite /\ isSuccess(ret.res)) =>
    \A n \in SubIds :
      /\ Cardinality(Range(subs[n - NumVals].sources) \cap Targets) >= 2 => Updates(n) = 1
      /\ \A d \in Derivations :
           (/\ subs[n - NumVals].tag = "listener" /\ subs[n - NumVals].sources = <<d>>
            /\ Range(subs[d - NumVals].sources) = Targets /\ Cardinality(Targets) >= 2)
           => Updates(n) = 1

\* the result of run() of composite t in a form that can be compared: the
\* payload of a Success is a plain value, or the array of [transaction, value]
\* entries when the last child of t is itself a composite
Payload(h, t, res) ==
  IF isError(res) THEN [tag |-> "error", entries |-> FALSE, value |-> res.error, list |-> <<>>]
  ELSE IF h.trs[h.trs[t].children[Len(h.trs[t].children)]].type = "compose"
    THEN [tag |-> "success", entries |-> TRUE, value |-> 0, list |-> res.value]
    ELSE [tag |-> "success", entries |-> FALSE, value |-> res.value, list |-> <<>>]

\* what a run of composite t leaves behind: the Values, the result, the
\* context given to each producer and the Updates of each node
Outcome(h, t, r) ==
  [value |-> r[1].value,
   res |-> Payload(h, t, r[2]),
   contexts |-> [i \in DOMAIN r[1].calls |->
                  <<r[1].calls[i].tr, r[1].calls[i].context>>],
   updates |-> [n \in SubIds |->
                 Cardinality({i \in DOMAIN r[1].log :
                                r[1].log[i].to = n /\ r[1].log[i].type = "UPDATE"})]]
RunLast(h) == Outcome(h, Len(h.trs), run(h, Len(h.trs)))
ComposeLastWith(h, c) == composeT(h, <<Len(h.trs), c>>)
ComposeWithLast(a, h) == composeT(h, <<a, Len(h.trs)>>)
WriteTrs == {t \in DOMAIN trs : trs[t].type = "write"}

\* C7: for write transactions a, b, c and one initial state, the runs of
\* compose(compose(a, b), c), compose(a, compose(b, c)) and compose(a, b, c) give
\* the same Values, the same result, the same context to each producer and
\* the same number of Updates to each node.
C7_ComposeAssociative ==
  \A a, b, c \in WriteTrs :
    (a # b /\ b # c /\ a # c) =>
      /\ RunLast(ComposeLastWith(composeT(Heap, <<a, b>>), c))
           = RunLast(composeT(Heap, <<a, b, c>>))
      /\ RunLast(ComposeWithLast(a, composeT(Heap, <<b, c>>)))
           = RunLast(composeT(Heap, <<a, b, c>>))

\* ----------------------------------------------- claims on the plain interface
Wrote == ret.op = "write"
Prio(n) == subs[n - NumVals].priority

\* the subscribers the last operation took from the pool of Value v, in the
\* order of the pops
Pops(v) == SelectSeq(log, LAMBDA e : e.type = "POP" /\ e.via = v)
PoppedFrom(v) == {Pops(v)[i].to : i \in DOMAIN Pops(v)}

\* every pop is followed by the Update to the popped subscriber
Delivered ==
  \A i \in DOMAIN log :
    log[i].type = "POP" =>
      \E k \in DOMAIN log :
        /\ k > i /\ log[k].type = "UPDATE" /\ log[k].to = log[i].to
        /\ \A m \in (i + 1)..(k - 1) : log[m].type = "COMPUTE"

Precedes(a, b) ==
  \A i, j \in DOMAIN Pops(ret.v) :
    (Pops(ret.v)[i].to = a /\ Pops(ret.v)[j].to = b) => i < j

ReadsOf(n, a) ==
  SelectSeq(log, LAMBDA e : e.type = "READ" /\ e.to = n /\ e.from = a)

\* listener n on Value s alone, whose effect reads a = derive(s, fn), a cached
\* before the operation
Glitchy(n, a, s) ==
  /\ subs[n - NumVals].tag = "listener"
  /\ subs[n - NumVals].sources = <<s>>
  /\ subs[n - NumVals].effect = [kind |-> "read", arg |-> a]
  /\ subs[a - NumVals].sources = <<s>>
  /\ pre.subs[a - NumVals]._cache # nullCache

IsAfter(n, a) == ~after(Prio(a)).thrown /\ Prio(n) = after(Prio(a)).value
IsBefore(n, a) == ~before(Prio(a)).thrown /\ Prio(n) = before(Prio(a)).value

\* C13: a write to S makes a listener on S registered with after(A) read A
\* computed from the new value of S, and a listener registered with before(A)
\* read the cached value of A, computed from the value S had before.
C13_AfterSeesFreshBeforeSeesStale ==
  Wrote =>
    \A n \in SubIds, a \in Derivations :
      Glitchy(n, a, ret.v) =>
        /\ IsAfter(n, a) => ReadsOf(n, a) = <<[to |-> n, from |-> a, type |-> "READ",
                                               seen |-> value,
                                               args |-> <<fn(<<value[ret.v]>>)>>]>>
        /\ IsBefore(n, a) =>
             /\ Len(ReadsOf(n, a)) = 1
             /\ ReadsOf(n, a)[1].args = <<pre.subs[a - NumVals]._cache>>
             /\ pre.subs[a - NumVals]._cache = fn(<<pre.value[ret.v]>>)

\* one write that changes S, a listener after(A) and a listener before(A):
\* they read different values of A
C13_Witness ==
  /\ Wrote
  /\ value[ret.v] # pre.value[ret.v]
  /\ \E n, m \in SubIds, a \in Derivations :
       /\ Glitchy(n, a, ret.v) /\ IsAfter(n, a)
       /\ Glitchy(m, a, ret.v) /\ IsBefore(m, a)
       /\ ReadsOf(n, a)[1].args # ReadsOf(m, a)[1].args

\* the pops and the Updates of the last operation, in order
Msgs == SelectSeq(log, LAMBDA e : e.type \in {"POP", "UPDATE"})
IsWriter(n) == subs[n - NumVals].effect.kind = "write"

\* the number of messages of one cascade from Value v: one for each
\* subscription path that starts at v
RECURSIVE CascadeSize(_, _)
CascadeSize(k, v) == IF k = 0 THEN 0 ELSE Paths(NumVals + k, v) + CascadeSize(k - 1, v)

\* the pops of node n among the messages lo..hi
PopsOf(n, lo, hi) ==
  Cardinality({i \in lo..hi : Msgs[i].type = "POP" /\ Msgs[i].to = n})

\* messages lo..hi are one whole cascade from Value v, with v holding x
WholeCascade(lo, hi, v, x) ==
  /\ hi <= Len(Msgs)
  /\ \A i \in lo..hi : Msgs[i].from = v /\ Msgs[i].seen[v] = x
  /\ \A n \in SubIds : PopsOf(n, lo, hi) = Paths(n, v)

\* C14: when the effect of a listener messaged in the cascade of write(S, .)
\* calls write(T, .), the messages that follow at once are the whole cascade of
\* T, before any further message of the cascade of S; when the outer write
\* returns the cascade of S is whole too.
C14_NestedCascadeFirst ==
  Wrote =>
    /\ Delivered
    /\ \A n \in SubIds :
         Cardinality({i \in DOMAIN Msgs : /\ Msgs[i].type = "POP" /\ Msgs[i].to = n
                                          /\ Msgs[i].from = ret.v}) = Paths(n, ret.v)
    /\ \A k \in DOMAIN Msgs :
         (Msgs[k].type = "UPDATE" /\ IsWriter(Msgs[k].to)) =>
           WholeCascade(k + 1, k + 2 * CascadeSize(Len(subs), subs[Msgs[k].to - NumVals].effect.arg),
                        subs[Msgs[k].to - NumVals].effect.arg, Msgs[k].args[1] + 1)

\* a writer on Value 1, a derivation of Value 2 with a listener of its own, and
\* a subscriber of Value 1 that is messaged after the cascade of Value 2
C14_Witness ==
  /\ Wrote /\ ret.v = 1
  /\ \E k \in DOMAIN Msgs :
       /\ Msgs[k].type = "UPDATE" /\ IsWriter(Msgs[k].to)
       /\ CascadeSize(Len(subs), 2) >= 2
       /\ \E d \in Derivations, l \in SubIds :
            /\ subs[d - NumVals].sources = <<2>>
            /\ subs[l - NumVals].tag = "listener" /\ subs[l - NumVals].sources = <<d>>
       /\ \E j \in DOMAIN Msgs : j > k + 2 * CascadeSize(Len(subs), 2) /\ Msgs[j].from = 1

\* C15: write(V, x) stores x and messages every dependent of V whether or not V
\* held x already; a listener whose source is V alone is invoked exactly once
\* by each write.
C15_NoEqualityCheck ==
  Wrote =>
    /\ value[ret.v] = ret.x
    /\ \A n \in SubscribedTo(ret.v) : Updates(n) >= 1
    /\ \A n \in SubIds :
         (subs[n - NumVals].tag = "listener" /\ subs[n - NumVals].sources = <<ret.v>>)
           => Updates(n) = 1

\* the third operation writes the value an earlier write has left in V, and a
\* listener on V is invoked
C15_Witness ==
  /\ Wrote /\ nexec = 3
  /\ ret.x = 1 /\ pre.value[ret.v] = 1
  /\ \E n \in SubIds :
       /\ subs[n - NumVals].tag = "listener" /\ subs[n - NumVals].sources = <<ret.v>>
       /\ Updates(n) = 1

\* C16: since the last Update a derivation has received (or since it was made),
\* the reads of the derivation, however many, have called its compute function
\* exactly once between them, and all have returned the result of that call.
C16_ComputedOncePerUpdate ==
  /\ \A d \in Derivations :
       subs[d - NumVals].reads # {} =>
         /\ subs[d - NumVals].computed = 1
         /\ subs[d - NumVals].reads = {subs[d - NumVals]._cache}
  /\ ret.op = "read" => ret.res \in subs[ret.n - NumVals].reads

\* a write of 1, then two reads of a derivation of the written Value: the
\* second read finds the result of the first
C16_Witness ==
  /\ ret.op = "read" /\ nexec = 3
  /\ value[1] = 1
  /\ subs[ret.n - NumVals].sources = <<1>>
  /\ pre.subs[ret.n - NumVals]._cache = fn(<<1>>)
  /\ pre.subs[ret.n - NumVals].computed = 1
  /\ ret.res = fn(<<1>>)

\* the derivations a read of node n may compute: n and the sources of n, and theirs
RECURSIVE Needs(_)
RECURSIVE NeedsAll(_)
Needs(n) ==
  IF isVal(n) THEN {}
  ELSE (IF subs[n - NumVals].tag = "rder" THEN {n} ELSE {})
         \cup NeedsAll(subs[n - NumVals].list)
         \cup (IF subs[n - NumVals].effect.kind = "read"
                 THEN Needs(subs[n - NumVals].effect.arg) ELSE {})
NeedsAll(q) == IF q = <<>> THEN {} ELSE Needs(q[1]) \cup NeedsAll(Tail(q))

\* the subscriber taken from the stack last before entry i of the log
LastPop(i) == log[Max({p \in 1..i : log[p].type = "POP"})].to

\* C17: an Update does nothing to a derivation but clear its cache; a compute
\* function is called during a write only for the read of a listener that has
\* been messaged, of a derivation the listener reads directly or through
\* other derivations.
C17_Lazy ==
  Wrote =>
    /\ \A i \in DOMAIN log :
         log[i].type = "COMPUTE" =>
           /\ subs[LastPop(i) - NumVals].tag = "listener"
           /\ log[i].to \in Needs(LastPop(i))
    /\ \A d \in Derivations :
         (Updates(d) >= 1 /\ \A i \in DOMAIN log : log[i].type = "COMPUTE" => log[i].to # d)
           => /\ subs[d - NumVals]._cache = nullCache
              /\ subs[d - NumVals] = [pre.subs[d - NumVals] EXCEPT !._cache = nullCache,
                                                                  !.computed = 0,
                                                                  !.reads = {}]

\* a write clears the filled cache of a derivation nobody reads and computes
\* another derivation for the effect of a listener
C17_Witness ==
  /\ Wrote
  /\ \E d, e \in Derivations :
       /\ pre.subs[d - NumVals]._cache # nullCache
       /\ subs[d - NumVals]._cache = nullCache
       /\ Updates(d) = 1
       /\ \A i \in DOMAIN log : log[i].type = "COMPUTE" => log[i].to # d
       /\ \E i \in DOMAIN log : log[i].type = "COMPUTE" /\ log[i].to = e

\* _destroy has run on node n, or every source of listener n is destroyed: it
\* holds no source
Destroyed(n) == subs[n - NumVals].sources = <<>>
Destroying == ret.op = "destroy"
Listeners == {n \in SubIds : subs[n - NumVals].tag = "listener"}

InPool(s) ==
  UNION {Range(sets[pools[Dependencies(Heap, s)].node[k].value]) :
           k \in DOMAIN pools[Dependencies(Heap, s)].node}

\* derivation d was destroyed before the last operation began
WasDestroyed(d) == pre.subs[d - NumVals].sources = <<>>

\* C19 as stated: destroy(D) leaves D in no pool of the sources it had; a later
\* write to a Value D was made from clears no cache of D and invokes no
\* listener that was subscribed to D.
C19_NoListenerOfDestroyed ==
  /\ Destroying => \A s \in Range(pre.subs[ret.n - NumVals].sources) : ret.n \notin InPool(s)
  /\ Wrote =>
       \A d \in Derivations :
         (WasDestroyed(d) /\ ret.v \in Range(subs[d - NumVals].origin)) =>
           /\ subs[d - NumVals] = pre.subs[d - NumVals]
           /\ \A l \in Listeners : d \in Range(subs[l - NumVals].origin) => Updates(l) = 0

\* C19 amended: a later write clears no cache of D and takes no subscriber from
\* the pool of D, so a listener that was subscribed to D alone is not invoked.
C19_NothingThroughDestroyed ==
  /\ Destroying => \A s \in Range(pre.subs[ret.n - NumVals].sources) : ret.n \notin InPool(s)
  /\ Wrote =>
       \A d \in Derivations :
         WasDestroyed(d) =>
           /\ subs[d - NumVals] = pre.subs[d - NumVals]
           /\ \A i \in DOMAIN log : log[i].type = "POP" => log[i].via # subs[d - NumVals].dependencies
           /\ \A l \in Listeners : Range(subs[l - NumVals].origin) = {d} => Updates(l) = 0

\* a derivation of the written Value with a filled cache and a listener of its
\* own was destroyed; the write messages another subscriber of the Value
C19_Witness ==
  /\ Wrote
  /\ log # <<>>
  /\ \E d \in Derivations, l \in Listeners :
       /\ WasDestroyed(d)
       /\ subs[d - NumVals].origin = <<ret.v>>
       /\ subs[d - NumVals]._cache # nullCache
       /\ subs[l - NumVals].origin = <<d>>

\* source s is a destroyed derivation that holds the last value it had
Frozen(s) == ~isVal(s) /\ Destroyed(s) /\ subs[s - NumVals]._cache # nullCache

\* the calls of the function of node n by the last operation: the computes of
\* a derivation, the invocations of a listener
CallsOf(n) ==
  {i \in DOMAIN log : /\ log[i].to = n
                      /\ log[i].type = (IF subs[n - NumVals].tag = "rder"
                                          THEN "COMPUTE" ELSE "UPDATE")}

\* C20: a node made from several distinct sources outlives the destroy of some
\* of them: its function is still called with one argument for each source it
\* was made from, the value a destroyed source had last in the place of that
\* source; it holds no source only when every one of them is destroyed.
C20_DestroyedSourceKeepsItsPlace ==
  \A n \in SubIds :
    Len(subs[n - NumVals].origin) >= 2 =>
      /\ \A i \in CallsOf(n) :
           /\ Len(log[i].args) = Len(subs[n - NumVals].origin)
           /\ \A k \in DOMAIN log[i].args :
                Frozen(subs[n - NumVals].origin[k])
                  => log[i].args[k] = subs[subs[n - NumVals].origin[k] - NumVals]._cache
      /\ (Destroyed(n) /\ ~(Destroying /\ ret.n = n) /\ pre.subs[n - NumVals].sources # <<>>)
           => \A s \in Range(subs[n - NumVals].origin) : ~isVal(s) /\ Destroyed(s)

\* C21: read(D) raises an error for every destroyed derivation D, whether D
\* was destroyed by destroy(D) or by the cascade, with its cache filled or not.
\* (read returns the cache, or recomputes over the sources D had.)
C21_ReadOfDestroyedRaises ==
  (ret.op = "read" /\ WasDestroyed(ret.n)) => ret.thrown

\* C22: derive and listen raise an error, and register nothing in any pool,
\* when one of the sources is a derivation that is already destroyed.
\* (Both subscribe the new node to every source they are given.)
C22_NoSubscriptionToDestroyed ==
  (ret.op \in {"derive", "listen"}
     /\ \E s \in Range(subs[ret.n - NumVals].origin) : ~isVal(s) /\ WasDestroyed(s))
    => (ret.thrown /\ sets = pre.sets /\ pools = pre.pools)

C24_SourcelessInNoPool ==
  \A n \in SubIds :
    Destroyed(n) => \A s \in (1..NumVals) \cup Derivations : n \notin InPool(s)

\* listener l was unsubscribed before the last operation began
Unsubscribing == ret.op = "unsub"
WasUnsubscribed(l) == l - NumVals \in DOMAIN pre.subs /\ pre.subs[l - NumVals].sources = <<>>

\* C25: after the unsubscribe closure of a listener is called the listener is
\* in the pool of none of its sources, no write and no run of a transaction
\* started afterwards invokes its effect, and a second call changes nothing.
C25_UnsubscribedIsSilent ==
  /\ Unsubscribing =>
       \A s \in Range(pre.subs[ret.n - NumVals].sources) : ret.n \notin InPool(s)
  /\ (Unsubscribing /\ WasUnsubscribed(ret.n)) =>
       /\ value = pre.value /\ subs = pre.subs /\ sets = pre.sets /\ pools = pre.pools
       /\ log = <<>>
  /\ (Wrote \/ ret.op = "run") =>
       \A l \in Listeners : WasUnsubscribed(l) => Updates(l) = 0

\* C26: the effect of a listener made with once: true is invoked at most once
\* over any sequence of writes to its sources, nested writes made by other
\* listeners during a cascade that reaches it included, and the listener is in
\* no pool after that invocation.
\* (A once listener that was invoked holds no source any more.)
C26_OnceAtMostOnce ==
  \A l \in Listeners :
    subs[l - NumVals].once =>
      /\ Updates(l) <= 1
      /\ WasUnsubscribed(l) => Updates(l) = 0
      /\ Destroyed(l) => \A s \in (1..NumVals) \cup Derivations : l \notin InPool(s)

\* C27: peek(D, values) returns D's compute function applied to the values it
\* is given and changes nothing: the cache of D, the Values, the sources and
\* the pools are as before and no message is sent.
C27_PeekIsPure ==
  ret.op = "peek" =>
    /\ ret.res = fn(ret.values)
    /\ value = pre.value
    /\ subs = pre.subs
    /\ sets = pre.sets
    /\ pools = pre.pools
    /\ log = <<>>

\* a peek of a derivation that has a subscriber and a filled cache, with
\* values that give another result than the cache holds
C27_Witness ==
  /\ ret.op = "peek"
  /\ subs[ret.n - NumVals]._cache \notin {nullCache, ret.res}
  /\ InPool(ret.n) # {}

\* the priority the last before or after started from
Pivoted == ret.op \in {"before", "after"}
PivotPriority ==
  IF ret.p0.kind = "derive" THEN subs[ret.p0.arg - NumVals].priority ELSE ret.p0.arg

\* C28: before(p) returns p + 1 when p < highest and raises when p >= highest;
\* after(p) returns p - 1 when p > lowest and raises when p <= lowest; so a
\* priority returned for a p within [lowest, highest] is within [lowest,
\* highest]. The pivot is a number or a derivation, which stands for its
\* current priority.
C28_BeforeAfterStayInRange ==
  /\ ret.op = "before" =>
       IF PivotPriority < phighest
         THEN ~ret.res.thrown /\ ret.res.value = PivotPriority + 1
         ELSE ret.res.thrown
  /\ ret.op = "after" =>
       IF PivotPriority > plowest
         THEN ~ret.res.thrown /\ ret.res.value = PivotPriority - 1
         ELSE ret.res.thrown
  /\ (Pivoted /\ PivotPriority \in plowest..phighest /\ ~ret.res.thrown)
       => ret.res.value \in plowest..phighest

\* before of a derivation that has the highest priority raises
C28_Witness ==
  /\ ret.op = "before"
  /\ ret.p0.kind = "derive"
  /\ PivotPriority = phighest
  /\ ret.res.thrown

\* C29: write(x, .) and transaction.write(x, .) raise an error when x is not a
\* Value, and then no Value and no cache changes, no transaction is made and
\* no subscriber is messaged.
C29_WriteToNonValueRaises ==
  (ret.op \in {"write", "transaction.write"} /\ ~isVal(ret.v)) =>
    /\ ret.thrown
    /\ value = pre.value
    /\ subs = pre.subs
    /\ trs = pre.trs
    /\ sets = pre.sets
    /\ pools = pre.pools
    /\ log = <<>>

\* a write aimed at a derivation that has a subscriber and a filled cache
C29_Witness ==
  /\ Wrote
  /\ ret.v \in Derivations
  /\ ret.thrown
  /\ subs[ret.v - NumVals]._cache # nullCache
  /\ InPool(ret.v) # {}

\* the write transaction that runs last in transaction t
RECURSIVE LastWrite(_)
LastWrite(t) ==
  IF trs[t].type = "write" THEN t ELSE LastWrite(trs[t].children[Len(trs[t].children)])

\* C30: a successful run() of a composite returns Success carrying the value
\* of its last child: the value written to the last child's target, and, when
\* the last child is itself a composite, the value that child's own run()
\* would return.
C30_CompositeReturnsLastValue ==
  (RanComposite /\ isSuccess(ret.res)) =>
    /\ ~Payload(Heap, ret.t, ret.res).entries
    /\ Payload(Heap, ret.t, ret.res).value = value[trs[LastWrite(ret.t)].target]

\* C31: in an acyclic graph one write to Value S invokes a listener once for
\* each distinct subscription path from S to it: a listener on [price, tax,
\* shipping], with tax and shipping both derived from price, is invoked three
\* times by a write to price.
C31_OncePerPath ==
  Wrote => \A l \in Listeners : Updates(l) = Paths(l, ret.v)

\* the written Value has two derivations and a listener of all three
C31_Witness ==
  /\ Wrote
  /\ \E l \in Listeners, t, s \in Derivations :
       /\ t # s
       /\ subs[t - NumVals].sources = <<ret.v>>
       /\ subs[s - NumVals].sources = <<ret.v>>
       /\ Range(subs[l - NumVals].sources) = {ret.v, t, s}
       /\ Updates(l) = 3

\* the deliveries of the last operation: <<subscriber, signal>>
Signals == SelectSeq(log, LAMBDA e : e.type \in {"UPDATE", "SOURCE_DESTROYED"})
Deliveries == [i \in DOMAIN Signals |-> <<Signals[i].to, Signals[i].type>>]

\* the recursive traversal: the dependents of a node by descending priority,
\* then in the order they registered, each with its whole subtree before the
\* next one
RECURSIVE RecNode(_, _)
RECURSIVE RecPool(_, _, _)
RECURSIVE RecSet(_, _)
RecNode(n, signal) ==
  <<<<n, signal>>>> \o
    (IF Dependencies(Heap, n) = 0 THEN <<>>
     ELSE RecPool(Dependencies(Heap, n), DOMAIN pools[Dependencies(Heap, n)].nodeMap, signal))
RecPool(pid, P, signal) ==
  IF P = {} THEN <<>>
  ELSE RecSet(sets[SAGet(pools[pid], Max(P))], signal) \o RecPool(pid, P \ {Max(P)}, signal)
RecSet(q, signal) ==
  IF q = <<>> THEN <<>> ELSE RecNode(q[1], signal) \o RecSet(Tail(q), signal)

\* C32: when the subscriptions do not change during the cascade, the deliveries
\* of the work-stack traversal are, in order, those of the recursive traversal
\* that visits the dependents of a node by descending priority, then by
\* registration, and the whole subtree of one dependent before the next.
C32_StackIsDepthFirst ==
  Wrote => Deliveries = RecPool(ret.v, DOMAIN pools[ret.v].nodeMap, "UPDATE")

\* a derivation of the written Value is followed by its own subscriber, and
\* that by another subscriber of the Value
C32_Witness ==
  /\ Wrote
  /\ \E i \in DOMAIN Deliveries :
       /\ i + 2 \in DOMAIN Deliveries
       /\ Deliveries[i][1] \in Derivations
       /\ Deliveries[i + 1][1] \in InPool(Deliveries[i][1])
       /\ Deliveries[i + 2][1] \in InPool(ret.v)
       /\ Deliveries[i + 2][1] # Deliveries[i + 1][1]

\* the entries get returns, and whether a walk is in strictly ascending index order
Gotten(sa) == {[value |-> SAGet(sa, i), index |-> i] : i \in DOMAIN sa.nodeMap}
Ascending(q) == \A i, k \in DOMAIN q : i < k => q[i].index < q[k].index

\* C34: after any pushes (with or without an index, overwriting ones
\* included) and deletes on a SparseArray, forEach visits exactly the entries
\* that get returns, in strictly ascending index order, and forEachBackward
\* visits the same entries in the reverse order.
C34_WalksAgreeWithGet ==
  /\ Range(SAForEach(pools[1])) = Gotten(pools[1])
  /\ Ascending(SAForEach(pools[1]))
  /\ SAForEachBackward(pools[1]) = Reverse(SAForEach(pools[1]))

\* the last operation merged the pools of two transactions
Merged == ret.op = "transaction.compose" /\ Len(trs[Len(trs)].children) = 2
MergeResult == pools[trs[Len(trs)].dependencies]
MergeArg(k) == trs[trs[Len(trs)].children[k]].dependencies
\* the subscribers pool pid holds at priority i
SubscribersAt(pid, i) ==
  IF SAGet(pools[pid], i) = Undef THEN {} ELSE Range(sets[SAGet(pools[pid], i)])

\* what a walk that visited the entries E has seen: each priority with its subscribers
Visited(E) == {<<e.index, Range(sets[e.value])>> : e \in E}

\* C33: PriorityPool.merge(p1, p2) returns a new pool with an entry exactly for
\* every priority of p1 or p2, whose Set at each priority is the union of the
\* two Sets, and whose forEach and forEachBackward both visit exactly these
\* entries, also when p1 or p2 is the result of a merge; p1 and p2 are unchanged.
C33_MergeIsUnion ==
  Merged =>
    /\ DOMAIN MergeResult.nodeMap
         = DOMAIN pools[MergeArg(1)].nodeMap \cup DOMAIN pools[MergeArg(2)].nodeMap
    /\ \A i \in DOMAIN MergeResult.nodeMap :
         Range(sets[SAGet(MergeResult, i)])
           = SubscribersAt(MergeArg(1), i) \cup SubscribersAt(MergeArg(2), i)
    /\ Visited(Range(SAForEach(MergeResult))) = Visited(Gotten(MergeResult))
    /\ Visited(Range(SAForEachBackward(MergeResult))) = Visited(Gotten(MergeResult))
    /\ \A k \in 1..2 :
         /\ pools[MergeArg(k)] = pre.pools[MergeArg(k)]
         /\ \A i \in DOMAIN pools[MergeArg(k)].nodeMap :
              sets[SAGet(pools[MergeArg(k)], i)] = pre.sets[SAGet(pools[MergeArg(k)], i)]

\* the write transactions of transaction t, in the order of the arguments
RECURSIVE Leaves(_)
RECURSIVE LeavesOf(_)
Leaves(t) == IF trs[t].type = "write" THEN <<t>> ELSE LeavesOf(trs[t].children)
LeavesOf(q) == IF q = <<>> THEN <<>> ELSE Leaves(q[1]) \o LeavesOf(Tail(q))
RanOrSilent == ret.op \in {"run", "silentRun"} /\ trs[ret.t].type = "compose"

\* C35: in a run or silentRun of a composite the children's producers are
\* executed in argument order and execution stops at the first Error: no
\* producer of a child after the failing one is invoked, also when the failing
\* child is inside a nested composite.
C35_StopsAtFirstError ==
  RanOrSilent =>
    /\ Len(calls) <= Len(Leaves(ret.t))
    /\ \A i \in DOMAIN calls :
         /\ calls[i].tr = Leaves(ret.t)[i]
         /\ i < Len(calls) => isSuccess(calls[i].res)
    /\ Len(calls) < Len(Leaves(ret.t)) => isError(calls[Len(calls)].res)
    /\ isError(ret.res) => isError(calls[Len(calls)].res) /\ ret.res = calls[Len(calls)].res

\* the first child of the composite is a composite whose first producer
\* fails: its second child and the child after it are not run
C35_Witness ==
  /\ RanOrSilent
  /\ trs[trs[ret.t].children[1]].type = "compose"
  /\ Len(trs[trs[ret.t].children[1]].children) = 2
  /\ Len(trs[ret.t].children) = 2
  /\ Len(calls) = 1
  /\ isError(ret.res)

\* what read gives for each source of derivation d in the present state
SourceValues(d) ==
  [k \in DOMAIN subs[d - NumVals].sources |-> read(Heap, subs[d - NumVals].sources[k])[2]]

\* C36: with no destroy and no unsubscribe, whenever a write or a successful
\* run of a transaction has returned, the cache of every derivation is empty
\* or is its function applied to what read gives for its sources, for any
\* priorities.
C36_CacheIsCoherent ==
  (Wrote \/ (ret.op = "run" /\ isSuccess(ret.res))) =>
    \A d \in Derivations :
      subs[d - NumVals]._cache \in {nullCache, fn(SourceValues(d))}

\* node n was made after transaction t and is subscribed to the target of one
\* of the write transactions of t
LateSubscriber(n, t) ==
  /\ subs[n - NumVals].born >= t
  /\ \E w \in Range(Leaves(t)) : trs[w].target \in Range(subs[n - NumVals].sources)

\* C39: a derivation or listener that subscribes to the target of a child
\* after the transaction was made (by transaction.write or by
\* transaction.compose of any number of children, at any priority) and before
\* run() is called receives an Update from a successful run().
C39_LateSubscriberUpdated ==
  (ret.op = "run" /\ isSuccess(ret.res)) =>
    \A n \in SubIds : LateSubscriber(n, ret.t) => Updates(n) >= 1

\* the places of the log where a listener with the given kind of effect was
\* invoked: its effect has acted on its argument there
Invoked(i, kind) ==
  /\ log[i].type = "UPDATE" /\ log[i].to \in Listeners
  /\ subs[log[i].to - NumVals].effect.kind = kind
ArgOf(i) == subs[log[i].to - NumVals].effect.arg

\* C37: when the unsubscribe closure of a listener is called from the effect
\* of a listener of higher priority during the cascade of a write, the effect
\* of the unsubscribed listener is not invoked later in that cascade.
C37_UnsubscribedInCascadeIsSilent ==
  Wrote =>
    \A i \in DOMAIN log :
      (Invoked(i, "unsub") /\ Prio(log[i].to) > Prio(ArgOf(i))) =>
        \A j \in DOMAIN log :
          j > i => ~(log[j].type = "UPDATE" /\ log[j].to = ArgOf(i))

\* node d was delivered a message at place j of the log
Messaged(d, j) == log[j].to = d /\ log[j].type \in {"UPDATE", "SOURCE_DESTROYED"}

\* C38: when destroy(D) is called from the effect of a listener during the
\* cascade of a write, and D was not messaged before in that cascade, then
\* later in the cascade D receives no Update and the cascade of the write
\* takes no listener from the pool of D.
C38_DestroyedInCascadeIsSilent ==
  Wrote =>
    \A i \in DOMAIN log :
      (Invoked(i, "destroy") /\ \A j \in 1..(i - 1) : ~Messaged(ArgOf(i), j)) =>
        \A j \in DOMAIN log :
          j > i =>
            /\ ~(log[j].type = "UPDATE" /\ log[j].to = ArgOf(i))
            /\ ~(/\ log[j].type = "POP" /\ log[j].from = ret.v
                 /\ log[j].via = subs[ArgOf(i) - NumVals].dependencies
                 /\ log[j].to \in Listeners)

\* the number of subscription paths that start at the node whose pool of
\* dependents is pid, in the graph as the last operation found it: one for
\* each member of a Set of the pool, and one for each path that goes on from
\* that member
RECURSIVE PoolPaths(_)
RECURSIVE SetPaths(_)
RECURSIVE EntryPaths(_)
SetPaths(q) ==
  IF q = <<>> THEN 0
  ELSE 1 + (IF pre.subs[q[1] - NumVals].dependencies # 0
              THEN PoolPaths(pre.subs[q[1] - NumVals].dependencies) ELSE 0)
         + SetPaths(Tail(q))
EntryPaths(es) ==
  IF es = <<>> THEN 0 ELSE SetPaths(pre.sets[es[1].value]) + EntryPaths(Tail(es))
PoolPaths(pid) == EntryPaths(SAForEach(pre.pools[pid]))

\* the pool of the node a work stack started from: a Value, a derivation, or
\* (0) the composite that was run
OriginPool(o) ==
  IF o = 0 THEN pre.trs[ret.t].dependencies
  ELSE IF isVal(o) THEN o ELSE pre.subs[o - NumVals].dependencies
Origins == {log[i].from : i \in {i \in DOMAIN log : log[i].type = "POP"}}
StackPops(o) == Cardinality({i \in DOMAIN log : log[i].type = "POP" /\ log[i].from = o})

====
